---- MODULE Spec2Model ----
(***************************************************************************)
(* Model of the MTG Commander deck-building assistant (src/src/main.py):   *)
(* the card-selection engine select_cards_by_strategy and the application  *)
(* flow run_deck_builder_app around it.                                    *)
(*                                                                         *)
(* Python strings are sequences of one-character strings, so that          *)
(* str.lower(), len() and the substring test `kw in text` are computed     *)
(* character by character.  A DataFrame is a sequence of rows (records).   *)
(***************************************************************************)
EXTENDS Integers, Sequences, FiniteSets, TLC

VARIABLES
    pc,                       \* position in the call / in run_deck_builder_app
    card_database_df,         \* the catalog: a sequence of rows
    owned_cards,              \* list of owned card names
    strategy_keywords,        \* the keyword list handed to select_cards_by_strategy
    commander_color_identity, \* the color identity handed to select_cards_by_strategy
    scored,                   \* synergy_cards_df right after the Score column is set (main.py:67-69)
    ranked,                   \* synergy_cards_df after filtering, sort, shuffle and sort (main.py:72-81)
    result,                   \* the dictionary select_cards_by_strategy returns
    commander_card,           \* run_deck_builder_app: the selected commander row
    strategy_command,         \* run_deck_builder_app: what the strategy resolver delivered
    strategy,                 \* run_deck_builder_app: the label displayed
    invoked                   \* run_deck_builder_app: select_cards_by_strategy has been called

vars == <<pc, card_database_df, owned_cards, strategy_keywords, commander_color_identity,
          scored, ranked, result, commander_card, strategy_command, strategy, invoked>>

----------------------------------------------------------------------------
(* Bounds of the model *)

MaxRows == 2        \* rows of a catalog of the exhaustive small family
MaxKeywords == 2    \* entries of a keyword list
MaxFill == 23       \* filler rows of a catalog of the large (cap-reaching) family

----------------------------------------------------------------------------
(* Python strings *)

UpperChars == <<"A", "B", "C", "D", "E", "F", "G", "H", "I", "J", "K", "L", "M", "N", "O", "P", "Q", "R", "S", "T", "U", "V", "W", "X", "Y", "Z">>
LowerChars == <<"a", "b", "c", "d", "e", "f", "g", "h", "i", "j", "k", "l", "m", "n", "o", "p", "q", "r", "s", "t", "u", "v", "w", "x", "y", "z">>

\* A character outside ASCII is written by its code point, "U+00C9" for the
\* letter E with acute.  The characters of the model are those of ASCII and Latin-1,
\* and U+0130 (capital I with dot above) with U+0307 (combining dot above).

\* the cased capital letters of Latin-1, U+00C0..U+00DE without U+00D7
Latin1UpperChars == <<
    "U+00C0", "U+00C1", "U+00C2", "U+00C3", "U+00C4", "U+00C5", "U+00C6", "U+00C7", "U+00C8", "U+00C9",
    "U+00CA", "U+00CB", "U+00CC", "U+00CD", "U+00CE", "U+00CF", "U+00D0", "U+00D1", "U+00D2", "U+00D3",
    "U+00D4", "U+00D5", "U+00D6", "U+00D8", "U+00D9", "U+00DA", "U+00DB", "U+00DC", "U+00DD", "U+00DE" >>

\* their lower-case letters, U+00E0..U+00FE without U+00F7
Latin1LowerChars == <<
    "U+00E0", "U+00E1", "U+00E2", "U+00E3", "U+00E4", "U+00E5", "U+00E6", "U+00E7", "U+00E8", "U+00E9",
    "U+00EA", "U+00EB", "U+00EC", "U+00ED", "U+00EE", "U+00EF", "U+00F0", "U+00F1", "U+00F2", "U+00F3",
    "U+00F4", "U+00F5", "U+00F6", "U+00F8", "U+00F9", "U+00FA", "U+00FB", "U+00FC", "U+00FD", "U+00FE" >>

\* str.lower() of a one-character string: a string, of two characters for U+0130
LowerChar(c) ==
    IF \E i \in 1..Len(UpperChars) : UpperChars[i] = c
    THEN <<LowerChars[CHOOSE i \in 1..Len(UpperChars) : UpperChars[i] = c]>>
    ELSE IF \E i \in 1..Len(Latin1UpperChars) : Latin1UpperChars[i] = c
    THEN <<Latin1LowerChars[CHOOSE i \in 1..Len(Latin1UpperChars) : Latin1UpperChars[i] = c]>>
    ELSE IF c = "U+0130" THEN <<"i", "U+0307">>
    ELSE <<c>>

\* str.lower(): the lower-casings of the characters, concatenated
RECURSIVE lower(_)
lower(s) ==
    IF s = <<>> THEN <<>>
    ELSE lower(SubSeq(s, 1, Len(s) - 1)) \o LowerChar(s[Len(s)])

\* a missing value of the catalog (pandas NaN, a float)
NaN == <<"NaN">>

\* str(x) of a cell: str(float('nan')) is 'nan', a string is itself
str(x) == IF x = NaN THEN <<"n", "a", "n">> ELSE x

\* the substring test `needle in hay`
Contains(needle, hay) ==
    \E i \in 0..(Len(hay) - Len(needle)) :
        \A j \in 1..Len(needle) : hay[i + j] = needle[j]

\* the entries of a list
Range(s) == {s[i] : i \in 1..Len(s)}

\* `x in lst` for a list
InList(x, lst) == \E i \in 1..Len(lst) : lst[i] = x

----------------------------------------------------------------------------
(* Program constants *)

PRICEY_CARDS == {
    <<"G", "o", "b", "l", "i", "n", " ", "P", "i", "l", "e", "d", "r", "i", "v", "e", "r">>,
    <<"K", "i", "k", "i", "-", "J", "i", "k", "i", ",", " ", "M", "i", "r", "r", "o", "r", " ", "B", "r", "e", "a", "k", "e", "r">>,
    <<"G", "i", "l", "d", "e", "d", " ", "D", "r", "a", "k", "e">>,
    <<"I", "m", "p", "e", "r", "i", "a", "l", " ", "R", "e", "c", "r", "u", "i", "t", "e", "r">>,
    <<"A", "n", "c", "i", "e", "n", "t", " ", "T", "o", "m", "b">>,
    <<"S", "n", "e", "a", "k", " ", "A", "t", "t", "a", "c", "k">>,
    <<"C", "h", "a", "n", "d", "r", "a", "'", "s", " ", "I", "g", "n", "i", "t", "i", "o", "n">> }

\* the names dropped at main.py:73
EXCLUDED_NAMES == {
    <<"T", "o", "k", "e", "n">>,
    <<"E", "m", "b", "l", "e", "m">>,
    <<"S", "c", "h", "e", "m", "e">>,
    <<"K", "r", "e", "n", "k", "o", ",", " ", "M", "o", "b", " ", "B", "o", "s", "s">> }

DEFAULT_COMMANDER_NAME == <<"K", "r", "e", "n", "k", "o", ",", " ", "M", "o", "b", " ", "B", "o", "s", "s">>

OWNED_LIMIT == 10
BUDGET_LIMIT == 10
PRICIER_LIMIT == 5

EmptyResult == [owned |-> <<>>, missing_budget |-> <<>>, missing_pricier |-> <<>>]

----------------------------------------------------------------------------
(* select_cards_by_strategy, step by step *)

\* main.py:38  [word.lower() for word in strategy_keywords if word and len(word) > 1]
KeepsShortKeywords(kws) ==
    LET kept == SelectSeq(kws, LAMBDA word : Len(word) > 0)
    IN  [i \in 1..Len(kept) |-> lower(kept[i])]

NormalizeKeywords(kws) ==
    LET kept == SelectSeq(kws, LAMBDA word : Len(word) # 0 /\ Len(word) > 1)
    IN  [i \in 1..Len(kept) |-> lower(kept[i])]

\* main.py:43-44
is_within_colors_any(card_color_identity, commander_ci) ==
    \/ card_color_identity = <<"C">>
    \/ \E i \in 1..Len(card_color_identity) :
          Contains(<<card_color_identity[i]>>, commander_ci)

is_within_colors(card_color_identity, commander_ci) ==
    \/ card_color_identity = <<"C">>
    \/ \A i \in 1..Len(card_color_identity) :
          Contains(<<card_color_identity[i]>>, commander_ci)

\* main.py:46-51  card_database_df[color_filter]
ColorFiltered(df, commander_ci) ==
    SelectSeq(df, LAMBDA row : is_within_colors(row.ColorIdentity, commander_ci))

\* main.py:55-64
score_card(card_row, keywords) ==
    LET card_text == str(card_row.Name) \o <<" ">> \o str(card_row.Text)
        card_text_lower == lower(card_text)
    IN  Cardinality({i \in 1..Len(keywords) : Contains(keywords[i], card_text_lower)})

\* main.py:67-69  the Score column
WithScore(df, keywords) ==
    [i \in 1..Len(df) |->
        [Name |-> df[i].Name, ColorIdentity |-> df[i].ColorIdentity,
         ManaValue |-> df[i].ManaValue, Text |-> df[i].Text,
         Score |-> score_card(df[i], keywords)]]

\* main.py:72-73
Eligible(df) ==
    SelectSeq(df, LAMBDA row : row.Score > 0 /\ row.Name \notin EXCLUDED_NAMES)

\* a mis-sorted ranking: Score ascending
BeforeAscending(a, b) ==
    \/ a.Score < b.Score
    \/ a.Score = b.Score /\ a.ManaValue < b.ManaValue

\* the order of sort_values(by=['Score','ManaValue'], ascending=[False, True])
Before(a, b) ==
    \/ a.Score > b.Score
    \/ a.Score = b.Score /\ a.ManaValue < b.ManaValue

\* main.py:78-81  sort_values(...).sample(frac=1).sort_values(...): sample(frac=1) is
\* any permutation of the rows and the final sort is stable on the two keys, so the
\* outcomes are exactly the arrangements of the rows that are ordered by the keys,
\* rows with equal keys in any order.
RECURSIVE Arrangements(_, _)
Arrangements(df, S) ==
    IF S = {} THEN {<<>>}
    ELSE LET first == {i \in S : \A j \in S : ~Before(df[j], df[i])}
         IN  UNION {{<<df[i]>> \o rest : rest \in Arrangements(df, S \ {i})} :
                      i \in first}

Rankings(df) == Arrangements(df, 1..Len(df))

\* main.py:84  Series.unique(): first occurrence wins
RECURSIVE unique(_)
KeepsDuplicates(names) == names

unique(names) ==
    IF names = <<>> THEN <<>>
    ELSE LET front == unique(SubSeq(names, 1, Len(names) - 1))
             last == names[Len(names)]
         IN  IF InList(last, front) THEN front ELSE Append(front, last)

Names(df) == [i \in 1..Len(df) |-> df[i].Name]

\* main.py:92-101  one iteration of the categorization loop
CategorizeCaseBlind(b, card_name, owned) ==
    IF \E i \in 1..Len(owned) : lower(owned[i]) = lower(card_name)
    THEN IF Len(b.owned) < OWNED_LIMIT
         THEN [b EXCEPT !.owned = Append(@, card_name)] ELSE b
    ELSE IF card_name \in PRICEY_CARDS
         THEN IF Len(b.missing_pricier) < PRICIER_LIMIT
              THEN [b EXCEPT !.missing_pricier = Append(@, card_name)] ELSE b
         ELSE IF Len(b.missing_budget) < BUDGET_LIMIT
              THEN [b EXCEPT !.missing_budget = Append(@, card_name)] ELSE b

CategorizeUncapped(b, card_name, owned) ==
    IF InList(card_name, owned)
    THEN [b EXCEPT !.owned = Append(@, card_name)]
    ELSE IF card_name \in PRICEY_CARDS
         THEN [b EXCEPT !.missing_pricier = Append(@, card_name)]
         ELSE [b EXCEPT !.missing_budget = Append(@, card_name)]

\* a candidate of a full bucket is deferred to the next bucket that has room
CategorizeDeferring(b, card_name, owned) ==
    IF InList(card_name, owned) /\ Len(b.owned) < OWNED_LIMIT
    THEN [b EXCEPT !.owned = Append(@, card_name)]
    ELSE IF card_name \in PRICEY_CARDS /\ Len(b.missing_pricier) < PRICIER_LIMIT
         THEN [b EXCEPT !.missing_pricier = Append(@, card_name)]
         ELSE IF Len(b.missing_budget) < BUDGET_LIMIT
              THEN [b EXCEPT !.missing_budget = Append(@, card_name)] ELSE b

CategorizeOne(b, card_name, owned) ==
    IF InList(card_name, owned)
    THEN IF Len(b.owned) < OWNED_LIMIT
         THEN [b EXCEPT !.owned = Append(@, card_name)] ELSE b
    ELSE IF card_name \in PRICEY_CARDS
         THEN IF Len(b.missing_pricier) < PRICIER_LIMIT
              THEN [b EXCEPT !.missing_pricier = Append(@, card_name)] ELSE b
         ELSE IF Len(b.missing_budget) < BUDGET_LIMIT
              THEN [b EXCEPT !.missing_budget = Append(@, card_name)] ELSE b

\* main.py:86-107  the loop over all_suggestions
RECURSIVE Categorize(_, _)
Categorize(all_suggestions, owned) ==
    IF all_suggestions = <<>> THEN EmptyResult
    ELSE CategorizeOne(Categorize(SubSeq(all_suggestions, 1, Len(all_suggestions) - 1), owned),
                       all_suggestions[Len(all_suggestions)], owned)

\* main.py:19-107  the call as one step: the state after select_cards_by_strategy
\* returns (pc' = ret) or raises (pc' = "raised").
\* main.py:67-69 on a frame without rows: DataFrame.apply(axis=1) cannot call the
\* lambda, and what it returns depends on the installed pandas: an empty Series (then
\* the call goes on with no rows) or a copy of the frame, whose assignment to the
\* single column 'Score' raises ValueError.  No pandas version is pinned, so both
\* outcomes are possible.
SelectCards(df, keywords, commander_ci, owned, ret) ==
    LET kws == NormalizeKeywords(keywords)
        synergy_cards_df == ColorFiltered(df, commander_ci)
    IN  IF kws = <<>>
        THEN /\ scored' = <<>>
             /\ ranked' = <<>>
             /\ result' = EmptyResult
             /\ pc' = ret
        ELSE \/ /\ synergy_cards_df = <<>>
                /\ pc' = "raised"
                /\ UNCHANGED <<scored, ranked, result>>
             \/ /\ scored' = WithScore(synergy_cards_df, kws)
                /\ \E order \in Rankings(Eligible(scored')) :
                     /\ ranked' = order
                     /\ result' = Categorize(unique(Names(order)), owned)
                /\ pc' = ret

----------------------------------------------------------------------------
(* Inputs *)

Row(name, ci, mv, text) ==
    [Name |-> name, ColorIdentity |-> ci, ManaValue |-> mv, Text |-> text]

\* rows of the small catalogs: on- and off-color cards, excluded entities, a
\* name in two rows, premium cards, absent and empty texts, cards with equal keys
RowPool == <<
    Row(<<"G", "o", "b", "l", "i", "n", " ", "W", "a", "r", "c", "h", "i", "e", "f">>, <<"R">>, 3, <<"g", "o", "b", "l", "i", "n", " ", "h", "a", "s", "t", "e", " ", "g", "o", "b", "l", "i", "n">>),
    Row(<<"G", "o", "b", "l", "i", "n", " ", "W", "a", "r", "c", "h", "i", "e", "f">>, <<"B", "R">>, 5, <<"h", "a", "s", "t", "e">>),
    Row(<<"G", "o", "b", "l", "i", "n", " ", "C", "h", "i", "e", "f", "t", "a", "i", "n">>, <<"R">>, 3, <<"G", "o", "b", "l", "i", "n", " ", "h", "a", "s", "t", "e">>),
    Row(<<"T", "o", "k", "e", "n">>, <<"C">>, 0, <<"g", "o", "b", "l", "i", "n", " ", "h", "a", "s", "t", "e">>),
    Row(<<"K", "r", "e", "n", "k", "o", ",", " ", "M", "o", "b", " ", "B", "o", "s", "s">>, <<"R">>, 4, <<"g", "o", "b", "l", "i", "n">>),
    Row(<<"G", "i", "l", "d", "e", "d", " ", "D", "r", "a", "k", "e">>, <<"U">>, 2, <<"h", "a", "s", "t", "e">>),
    Row(<<"G", "o", "b", "l", "i", "n", " ", "P", "i", "l", "e", "d", "r", "i", "v", "e", "r">>, <<"R">>, 2, <<>>),
    Row(<<"G", "o", "b", "l", "i", "n", " ", "G", "u", "i", "d", "e">>, <<"R">>, 1, NaN),
    Row(<<"S", "o", "l", " ", "R", "i", "n", "g">>, <<"C">>, 1, NaN),
    Row(<<"F", "o", "r", "e", "s", "t">>, <<"C">>, 0, <<>>) >>

KeywordPool == <<
    <<"g", "o", "b", "l", "i", "n">>, <<"G", "o", "b", "l", "i", "n">>, <<"h", "a", "s", "t", "e">>, <<"n", "a", "n">>, <<"a">>, <<>> >>

ColorIdentities == { <<"R">>, <<"B", "R", "U">>, <<"C">> }

OwnedLists == {
    <<>>,
    << <<"G", "o", "b", "l", "i", "n", " ", "W", "a", "r", "c", "h", "i", "e", "f">>, <<"g", "o", "b", "l", "i", "n", " ", "g", "u", "i", "d", "e">>, <<"G", "i", "l", "d", "e", "d", " ", "D", "r", "a", "k", "e">>, <<"T", "o", "k", "e", "n">> >> }

\* the rows of RowPool with index in S, in pool order
RECURSIVE RowsOf(_)
RowsOf(S) ==
    IF S = {} THEN <<>>
    ELSE LET m == CHOOSE i \in S : \A j \in S : j <= i
         IN  Append(RowsOf(S \ {m}), RowPool[m])

SmallCatalogs ==
    {RowsOf(S) : S \in {T \in SUBSET (1..Len(RowPool)) : Cardinality(T) <= MaxRows}}

\* keyword lists of up to MaxKeywords entries, repeated entries included; the score
\* counts entries, so one order of each choice of entries is drawn
KeywordLists ==
    UNION {{[i \in 1..n |-> KeywordPool[f[i]]] :
               f \in {g \in [1..n -> 1..Len(KeywordPool)] :
                         \A i \in 1..(n - 1) : g[i] <= g[i + 1]}} :
           n \in 0..MaxKeywords}

\* rows of the large catalogs: distinct filler cards that match "goblin" by name,
\* every third one "haste" by text, and the cards of the premium set
Filler(i) ==
    Row(<<"G", "o", "b", "l", "i", "n", " ">> \o <<UpperChars[i]>>, <<"R">>, i,
        IF i % 3 = 0 THEN <<"h", "a", "s", "t", "e">> ELSE <<>>)

PremiumRows == <<
    Row(<<"G", "o", "b", "l", "i", "n", " ", "P", "i", "l", "e", "d", "r", "i", "v", "e", "r">>, <<"R">>, 2, <<>>),
    Row(<<"K", "i", "k", "i", "-", "J", "i", "k", "i", ",", " ", "M", "i", "r", "r", "o", "r", " ", "B", "r", "e", "a", "k", "e", "r">>, <<"R">>, 5, <<"g", "o", "b", "l", "i", "n", " ", "h", "a", "s", "t", "e">>),
    Row(<<"I", "m", "p", "e", "r", "i", "a", "l", " ", "R", "e", "c", "r", "u", "i", "t", "e", "r">>, <<"R">>, 3, <<"g", "o", "b", "l", "i", "n">>),
    Row(<<"A", "n", "c", "i", "e", "n", "t", " ", "T", "o", "m", "b">>, <<"C">>, 0, <<"g", "o", "b", "l", "i", "n">>),
    Row(<<"S", "n", "e", "a", "k", " ", "A", "t", "t", "a", "c", "k">>, <<"R">>, 4, <<"g", "o", "b", "l", "i", "n", " ", "h", "a", "s", "t", "e">>),
    Row(<<"C", "h", "a", "n", "d", "r", "a", "'", "s", " ", "I", "g", "n", "i", "t", "i", "o", "n">>, <<"R">>, 5, <<"g", "o", "b", "l", "i", "n">>),
    Row(<<"G", "i", "l", "d", "e", "d", " ", "D", "r", "a", "k", "e">>, <<"U">>, 2, <<"g", "o", "b", "l", "i", "n">>) >>

\* a color-legal card that matches no keyword of the large keyword lists
LandRow == Row(<<"F", "o", "r", "e", "s", "t">>, <<"C">>, 0, <<>>)

LargeCatalog(n, p) ==
    [i \in 1..n |-> Filler(i)] \o SubSeq(PremiumRows, 1, p) \o <<LandRow>>

\* the owner of the large collection holds every filler card of odd index
LargeOwned == [k \in 1..((MaxFill + 1) \div 2) |-> Filler(2 * k - 1).Name]

\* the owner of the complete collection holds every filler card
LargeOwnedAll == [k \in 1..MaxFill |-> Filler(k).Name]

LargeOwnedLists == {LargeOwned, LargeOwnedAll}

LargeKeywordLists == { << <<"g", "o", "b", "l", "i", "n">> >>, << <<"G", "o", "b", "l", "i", "n">>, <<"h", "a", "s", "t", "e">> >> }

Input(df, kws, ci, owned) == [df |-> df, kws |-> kws, ci |-> ci, owned |-> owned]

SmallInputs ==
    {Input(df, kws, ci, owned) :
        df \in SmallCatalogs, kws \in KeywordLists, ci \in ColorIdentities, owned \in OwnedLists}

LargeInputs ==
    {Input(LargeCatalog(n, p), kws, <<"R">>, owned) :
        n \in 0..MaxFill, p \in 0..Len(PremiumRows), kws \in LargeKeywordLists,
        owned \in LargeOwnedLists}

\* rows and keywords with letters outside ASCII: lower-casing folds them too, and
\* lengthens the capital I with dot above
AccentedRows == <<
    Row(<<"U+00C9", "o", "w", "y", "n", ",", " ", "F", "e", "a", "r", "l", "e", "s", "s", " ", "K", "n", "i", "g", "h", "t">>, <<"R", "W">>, 4, <<"H", "a", "s", "t", "e">>),
    Row(<<"U+00C6", "t", "h", "e", "r", " ", "V", "i", "a", "l">>, <<"C">>, 1, NaN),
    Row(<<"U+0130", "o">>, <<"C">>, 0, <<>>) >>

AccentedCatalogs ==
    {SelectSeq(AccentedRows, LAMBDA row : row \in S) : S \in SUBSET Range(AccentedRows)}

AccentedKeywordLists == {
    << <<"U+00E9", "o", "w", "y", "n">> >>,
    << <<"U+00C9", "O", "W", "Y", "N">> >>,
    << <<"U+00C6", "T", "H", "E", "R">> >>,
    << <<"U+0130", "o">> >>,
    << <<"U+00C9">> >>,
    << <<"U+00E9", "o", "w", "y", "n">>, <<"U+00C9", "O", "W", "Y", "N">> >> }

AccentedInputs ==
    {Input(df, kws, ci, owned) :
        df \in AccentedCatalogs, kws \in AccentedKeywordLists,
        ci \in { <<"R", "W">>, <<"R">> },
        owned \in { <<>>, << <<"U+00C9", "o", "w", "y", "n", ",", " ", "F", "e", "a", "r", "l", "e", "s", "s", " ", "K", "n", "i", "g", "h", "t">> >> }}

Inputs == SmallInputs \cup LargeInputs \cup AccentedInputs

----------------------------------------------------------------------------
(* The selection engine called directly *)

NoCard == [kind |-> "None"]
NoCommand == [kind |-> "None"]

Init ==
    /\ pc = "call"
    /\ \E in \in Inputs :
          /\ card_database_df = in.df
          /\ strategy_keywords = in.kws
          /\ commander_color_identity = in.ci
          /\ owned_cards = in.owned
    /\ scored = <<>>
    /\ ranked = <<>>
    /\ result = EmptyResult
    /\ commander_card = NoCard
    /\ strategy_command = NoCommand
    /\ strategy = <<>>
    /\ invoked = FALSE

\* main.py:19-107  select_cards_by_strategy(card_database_df, strategy_keywords,
\*                                          commander_color_identity, owned_cards)
Select ==
    /\ pc = "call"
    /\ SelectCards(card_database_df, strategy_keywords, commander_color_identity,
                   owned_cards, "returned")
    /\ invoked' = TRUE
    /\ UNCHANGED <<card_database_df, owned_cards, strategy_keywords,
                   commander_color_identity, commander_card, strategy_command, strategy>>

Next == Select

Spec == Init /\ [][Next]_vars

----------------------------------------------------------------------------
(* Properties of select_cards_by_strategy *)

BucketNames ==
    Range(result.owned) \cup Range(result.missing_budget) \cup Range(result.missing_pricier)

Returned == pc = "returned"

\* the color test as the specification words it
ColorLegal(ci, X) ==
    \/ ci = <<"C">>
    \/ \A i \in 1..Len(ci) : \E j \in 1..Len(X) : X[j] = ci[i]

\* C1: every name in a bucket is the name of a catalog card whose ColorIdentity is
\* 'C' or made only of symbols of the commander's color identity; a name all of
\* whose cards fail the test is in no bucket.
C1_ColorLegality ==
    Returned =>
        \A name \in BucketNames :
            \E i \in 1..Len(card_database_df) :
                /\ card_database_df[i].Name = name
                /\ ColorLegal(card_database_df[i].ColorIdentity, commander_color_identity)

\* an off-color card that matches a keyword was left out while another card was placed
C1_Witness ==
    /\ Returned
    /\ BucketNames # {}
    /\ \E i \in 1..Len(card_database_df) :
          /\ ~ColorLegal(card_database_df[i].ColorIdentity, commander_color_identity)
          /\ score_card(card_database_df[i], NormalizeKeywords(strategy_keywords)) > 0
          /\ card_database_df[i].Name \notin BucketNames

\* C5: the owned bucket holds at most 10 names, missing_budget at most 10 and
\* missing_pricier at most 5.
C5_Caps ==
    Returned =>
        /\ Len(result.owned) <= 10
        /\ Len(result.missing_budget) <= 10
        /\ Len(result.missing_pricier) <= 5

\* every bucket is full and more names were ranked than the three buckets hold
C5_Witness ==
    /\ Returned
    /\ Len(result.owned) = 10
    /\ Len(result.missing_budget) = 10
    /\ Len(result.missing_pricier) = 5
    /\ Cardinality(Range(Names(ranked)) \cap Range(owned_cards)) > 10
    /\ Cardinality((Range(Names(ranked)) \cap PRICEY_CARDS) \ Range(owned_cards)) > 5
    /\ Cardinality(Range(Names(ranked)) \ (PRICEY_CARDS \cup Range(owned_cards))) > 10

\* C6: every name of the owned bucket is in the owned list, letter for letter, and no
\* name of missing_budget or missing_pricier is.
C6_OwnedPartition ==
    Returned =>
        /\ \A name \in Range(result.owned) : name \in Range(owned_cards)
        /\ \A name \in Range(result.missing_budget) \cup Range(result.missing_pricier) :
              name \notin Range(owned_cards)

\* an owned card was placed as owned, and a card whose name differs from an owned
\* name only in letter case was placed as missing
C6_Witness ==
    /\ Returned
    /\ result.owned # <<>>
    /\ \E name \in Range(result.missing_budget) \cup Range(result.missing_pricier) :
          \E i \in 1..Len(owned_cards) : lower(owned_cards[i]) = lower(name)

NoRepeats(s) == \A i, j \in 1..Len(s) : s[i] = s[j] => i = j

\* C7: no name is in two buckets and no name is twice in a bucket, also when the
\* catalog holds a name in several rows.
C7_Disjoint ==
    Returned =>
        /\ NoRepeats(result.owned)
        /\ NoRepeats(result.missing_budget)
        /\ NoRepeats(result.missing_pricier)
        /\ Range(result.owned) \cap Range(result.missing_budget) = {}
        /\ Range(result.owned) \cap Range(result.missing_pricier) = {}
        /\ Range(result.missing_budget) \cap Range(result.missing_pricier) = {}

\* two ranked rows carry the same name, and that name was placed
C7_Witness ==
    /\ Returned
    /\ \E i, j \in 1..Len(ranked) :
          /\ i # j
          /\ ranked[i].Name = ranked[j].Name
          /\ ranked[i].Name \in BucketNames

\* C8: when every entry of the keyword list has length <= 1, the call returns three
\* empty buckets and does not raise.
C8_NoKeywords ==
    (pc # "call" /\ \A i \in 1..Len(strategy_keywords) : Len(strategy_keywords[i]) <= 1) =>
        /\ Returned
        /\ result = EmptyResult

\* a one-letter keyword that occurs in a color-legal card's name was discarded
C8_Witness ==
    /\ Returned
    /\ result = EmptyResult
    /\ \A i \in 1..Len(strategy_keywords) : Len(strategy_keywords[i]) <= 1
    /\ \E i \in 1..Len(strategy_keywords), r \in 1..Len(card_database_df) :
          /\ Len(strategy_keywords[i]) = 1
          /\ Contains(lower(strategy_keywords[i]), lower(card_database_df[r].Name))
          /\ ColorLegal(card_database_df[r].ColorIdentity, commander_color_identity)
          /\ card_database_df[r].Name \notin EXCLUDED_NAMES

\* the ranked row that gives a name its place: its first row in the ranking
RankRow(name) ==
    ranked[CHOOSE i \in 1..Len(ranked) :
              /\ ranked[i].Name = name
              /\ \A j \in 1..(i - 1) : ranked[j].Name # name]

InRankOrder(a, b) ==
    \/ RankRow(a).Score > RankRow(b).Score
    \/ /\ RankRow(a).Score = RankRow(b).Score
       /\ RankRow(a).ManaValue <= RankRow(b).ManaValue

BucketInRankOrder(bucket) ==
    \A i, j \in 1..Len(bucket) : i < j => InRankOrder(bucket[i], bucket[j])

\* C10: within each bucket names are in rank order, score descending and, among equal
\* scores, mana value ascending, whatever the shuffle did.
C10_RankOrder ==
    Returned =>
        /\ BucketInRankOrder(result.owned)
        /\ BucketInRankOrder(result.missing_budget)
        /\ BucketInRankOrder(result.missing_pricier)

\* a bucket holds a name of higher score before two names of equal score and
\* different mana value, and the ranking is not the catalog's row order
C10_Witness ==
    /\ Returned
    /\ \E i, j, k \in 1..Len(result.owned) :
          /\ i < j /\ j < k
          /\ RankRow(result.owned[i]).Score > RankRow(result.owned[j]).Score
          /\ RankRow(result.owned[j]).Score = RankRow(result.owned[k]).Score
          /\ RankRow(result.owned[j]).ManaValue < RankRow(result.owned[k]).ManaValue
    /\ \E i, j \in 1..Len(ranked) :
          /\ i < j
          /\ ranked[i].Score = ranked[j].Score
          /\ ranked[i].ManaValue = ranked[j].ManaValue
          /\ ranked[i].Name # ranked[j].Name

\* the normalized keyword set of the specification
NormalizedKeywordSet ==
    {lower(strategy_keywords[i]) :
        i \in {k \in 1..Len(strategy_keywords) : Len(strategy_keywords[k]) > 1}}

\* C4: the score of a color-legal card is the number of distinct normalized keywords
\* that occur in its lower-cased name and text, each keyword counted once.
C4_ScoreIsCoverage ==
    Returned =>
        \A i \in 1..Len(scored) :
            scored[i].Text # NaN =>
                scored[i].Score =
                    Cardinality({kw \in NormalizedKeywordSet :
                        Contains(kw, lower(scored[i].Name \o <<" ">> \o scored[i].Text))})

\* C9: a card whose Text is absent is scored on its name alone.
C9_AbsentTextScoresByName ==
    Returned =>
        \A i \in 1..Len(scored) :
            scored[i].Text = NaN =>
                LET kws == NormalizeKeywords(strategy_keywords)
                IN  scored[i].Score =
                        Cardinality({k \in 1..Len(kws) :
                            Contains(kws[k], lower(scored[i].Name))})

\* the first n entries of a list, all of them when it has fewer
FirstN(s, n) == SubSeq(s, 1, IF Len(s) < n THEN Len(s) ELSE n)

\* the names of a list, first occurrence of each, in order
RECURSIVE FirstOccurrences(_)
FirstOccurrences(s) ==
    IF s = <<>> THEN <<>>
    ELSE LET front == FirstOccurrences(SubSeq(s, 1, Len(s) - 1))
         IN  IF s[Len(s)] \in Range(front) THEN front ELSE Append(front, s[Len(s)])

\* the ranked, deduplicated list of eligible names
RankedNames == FirstOccurrences([i \in 1..Len(ranked) |-> ranked[i].Name])

IsOwned(name) == name \in Range(owned_cards)

\* C12: a candidate of a full bucket is dropped: no premium name and no owned name
\* is in missing_budget, and no owned name is in missing_pricier.
C12_DroppedNotDeferred ==
    Returned =>
        /\ \A name \in Range(result.missing_budget) :
              name \notin PRICEY_CARDS /\ ~IsOwned(name)
        /\ \A name \in Range(result.missing_pricier) : ~IsOwned(name)

\* missing_pricier is full and a sixth unowned premium card was dropped, owned is
\* full and an eleventh owned card was dropped, and missing_budget still had room
C12_Witness ==
    /\ Returned
    /\ Len(result.missing_pricier) = 5
    /\ \E name \in Range(RankedNames) :
          name \in PRICEY_CARDS /\ ~IsOwned(name) /\ name \notin BucketNames
    /\ Len(result.owned) = 10
    /\ \E name \in Range(RankedNames) : IsOwned(name) /\ name \notin BucketNames
    /\ Len(result.missing_budget) < 10

----------------------------------------------------------------------------
(* run_deck_builder_app *)

\* what the user types at the commander prompt
CommanderInputs == { <<>>, <<"G", "o", "b", "l", "i", "n", " ", "W", "a", "r", "c", "h", "i", "e", "f">>, <<"G", "o", "b", "l", "i", "n", " ", "G", "u", "i", "d", "e">>, <<"N", "o", "b", "o", "d", "y">> }

\* an entry of a keyword list: a str, or an int (the falsy 0 as well as others)
StrWord(s) == [type |-> "str", str |-> s, int |-> 0]
IntWord(n) == [type |-> "int", str |-> <<>>, int |-> n]

\* a value of the 'keywords' field of a parsed command: a list of entries ("list"),
\* a str ("str", its text), None ("None") or no such field ("absent")
Keywords(kind, items, text) == [kind |-> kind, items |-> items, text |-> text]

\* a parsed command: the dictionary the strategy resolver hands to the application
Command(function, label, keywords) ==
    [kind |-> "dict", function |-> function, strategy |-> label, keywords |-> keywords]

\* the outcomes of the strategy resolver: no command (timeout, request failure,
\* malformed or absent output), or a parsed dictionary of any shape
ResolverOutcomes == {
    NoCommand,
    Command("select_cards", <<"G", "o", "b", "l", "i", "n", " ", "T", "r", "i", "b", "a", "l">>, Keywords("list", << StrWord(<<"g", "o", "b", "l", "i", "n">>), StrWord(<<"h", "a", "s", "t", "e">>) >>, <<>>)),
    Command("select_cards", <<>>, Keywords("list", << StrWord(<<"g", "o", "b", "l", "i", "n">>) >>, <<>>)),
    Command("select_cards", <<"G", "o", "b", "l", "i", "n", " ", "T", "r", "i", "b", "a", "l">>, Keywords("str", <<>>, <<"g", "o", "b", "l", "i", "n">>)),
    Command("select_cards", <<"G", "o", "b", "l", "i", "n", " ", "T", "r", "i", "b", "a", "l">>, Keywords("list", << IntWord(0) >>, <<>>)),
    Command("select_cards", <<"G", "o", "b", "l", "i", "n", " ", "T", "r", "i", "b", "a", "l">>, Keywords("list", << IntWord(5) >>, <<>>)),
    Command("select_cards", <<"G", "o", "b", "l", "i", "n", " ", "T", "r", "i", "b", "a", "l">>, Keywords("list", << StrWord(<<"g", "o", "b", "l", "i", "n">>), IntWord(0) >>, <<>>)),
    Command("select_cards", <<"G", "o", "b", "l", "i", "n", " ", "T", "r", "i", "b", "a", "l">>, Keywords("None", <<>>, <<>>)),
    Command("select_cards", <<"G", "o", "b", "l", "i", "n", " ", "T", "r", "i", "b", "a", "l">>, Keywords("absent", <<>>, <<>>)),
    Command("other", <<"G", "o", "b", "l", "i", "n", " ", "T", "r", "i", "b", "a", "l">>, Keywords("list", << StrWord(<<"g", "o", "b", "l", "i", "n">>) >>, <<>>)) }

AppInit ==
    /\ pc = "start"
    /\ card_database_df = <<>>
    /\ owned_cards = <<>>
    /\ strategy_keywords = <<>>
    /\ commander_color_identity = <<>>
    /\ scored = <<>>
    /\ ranked = <<>>
    /\ result = EmptyResult
    /\ commander_card = NoCard
    /\ strategy_command = NoCommand
    /\ strategy = <<"U", "n", "k", "n", "o", "w", "n", " ", "S", "t", "r", "a", "t", "e", "g", "y">>
    /\ invoked = FALSE

\* main.py:133  load_and_preprocess_data() returns the catalog
LoadData ==
    /\ pc = "start"
    /\ \E df \in SmallCatalogs : card_database_df' = df
    /\ pc' = "load_collection"
    /\ UNCHANGED <<owned_cards, strategy_keywords, commander_color_identity, scored, ranked,
                   result, commander_card, strategy_command, strategy, invoked>>

\* main.py:133-136  load_and_preprocess_data() returns None: the application stops
LoadDataFails ==
    /\ pc = "start"
    /\ pc' = "stopped"
    /\ UNCHANGED <<card_database_df, owned_cards, strategy_keywords, commander_color_identity,
                   scored, ranked, result, commander_card, strategy_command, strategy, invoked>>

\* main.py:133 without a try around data_loader.py:36-58, which catches only
\* json.JSONDecodeError: a data file that is no UTF-8 text (UnicodeDecodeError at
\* data_loader.py:38), valid JSON that is no object (AttributeError at data_loader.py:44)
\* or whose 'data' is no object (AttributeError at data_loader.py:48) makes
\* load_and_preprocess_data raise, as does a cached CSV that pd.read_csv cannot parse
\* (data_loader.py:31); the application ends with the exception
LoadDataRaises ==
    /\ pc = "start"
    /\ pc' = "raised"
    /\ UNCHANGED <<card_database_df, owned_cards, strategy_keywords, commander_color_identity,
                   scored, ranked, result, commander_card, strategy_command, strategy, invoked>>

\* main.py:139  load_collection_data() returns the owned names ([] without a file)
LoadCollection ==
    /\ pc = "load_collection"
    /\ \E owned \in OwnedLists : owned_cards' = owned
    /\ pc' = "select_commander"
    /\ UNCHANGED <<card_database_df, strategy_keywords, commander_color_identity, scored,
                   ranked, result, commander_card, strategy_command, strategy, invoked>>

\* main.py:110-127, 145-147  select_commander: input() at main.py:115 returns what
\* the user typed, or raises EOFError when standard input is at its end
\* (KeyboardInterrupt when the user interrupts); nothing catches it and the
\* application ends with the exception
SelectCommander ==
    /\ pc = "select_commander"
    /\ \/ /\ pc' = "raised"
          /\ UNCHANGED commander_card
       \/ \E typed \in CommanderInputs :
             LET commander_name == IF typed = <<>> THEN DEFAULT_COMMANDER_NAME ELSE typed
                 found == SelectSeq(card_database_df, LAMBDA row : row.Name = commander_name)
             IN  IF found = <<>>
                 THEN /\ pc' = "stopped"
                      /\ UNCHANGED commander_card
                 ELSE /\ commander_card' = found[1]
                      /\ pc' = "get_strategy"
    /\ UNCHANGED <<card_database_df, owned_cards, strategy_keywords, commander_color_identity,
                   scored, ranked, result, strategy_command, strategy, invoked>>

\* main.py:159-165 with the OllamaAgent of llm_agent.py, which defines no
\* get_strategy_command: the call at main.py:162 raises AttributeError and the
\* application ends there
GetStrategyRaises ==
    /\ pc = "get_strategy"
    /\ pc' = "raised"
    /\ UNCHANGED <<card_database_df, owned_cards, strategy_keywords, commander_color_identity,
                   scored, ranked, result, commander_card, strategy_command, strategy, invoked>>

\* main.py:159-165 with an agent that provides get_strategy_command as the
\* specification describes the strategy resolver: the call returns one of its outcomes
GetStrategy ==
    /\ pc = "get_strategy"
    /\ \E command \in ResolverOutcomes : strategy_command' = command
    /\ pc' = "execute"
    /\ UNCHANGED <<card_database_df, owned_cards, strategy_keywords, commander_color_identity,
                   scored, ranked, result, commander_card, strategy, invoked>>

\* main.py:171  strategy_command and strategy_command.get('function') == 'select_cards'
Accepted(command) == command.kind = "dict" /\ command.function = "select_cards"

\* main.py:38  `for word in strategy_keywords`: the entries of a list, the characters
\* of a str; main.py:173 puts [] for a command without 'keywords'
Words(keywords) ==
    IF keywords.kind = "list" THEN keywords.items
    ELSE IF keywords.kind = "str"
         THEN [i \in 1..Len(keywords.text) |-> StrWord(<<keywords.text[i]>>)]
         ELSE <<>>

\* main.py:38  `word and ...`: an empty str and the int 0 are falsy
Truthy(word) ==
    IF word.type = "str" THEN word.str # <<>> ELSE word.int # 0

\* main.py:38  `len(word) > 1` is evaluated for every truthy entry and raises
\* TypeError for an int; a falsy entry is skipped before len() is reached
NormalizationRaises(words) ==
    \E i \in 1..Len(words) : Truthy(words[i]) /\ words[i].type # "str"

\* the str entries of a list, in order: what main.py:38 can keep once the falsy
\* entries of other types are skipped
StrWords(words) ==
    LET kept == SelectSeq(words, LAMBDA word : word.type = "str")
    IN  [i \in 1..Len(kept) |-> kept[i].str]

\* main.py:171-181  the command is accepted and select_cards_by_strategy is called
ExecuteStrategy ==
    /\ pc = "execute"
    /\ Accepted(strategy_command)
    /\ strategy' = strategy_command.strategy
    /\ invoked' = TRUE
    /\ commander_color_identity' = commander_card.ColorIdentity
    /\ LET keywords == strategy_command.keywords
       IN  IF keywords.kind = "None" \/ NormalizationRaises(Words(keywords))
           THEN \* main.py:38 raises TypeError: None is not iterable, an int has no len()
                /\ pc' = "raised"
                /\ UNCHANGED <<strategy_keywords, scored, ranked, result>>
           ELSE /\ strategy_keywords' = StrWords(Words(keywords))
                /\ SelectCards(card_database_df, strategy_keywords',
                               commander_color_identity', owned_cards, "display")
    /\ UNCHANGED <<card_database_df, owned_cards, commander_card, strategy_command>>

\* main.py:182-183  the command is not accepted: selection does not run
RejectStrategy ==
    /\ pc = "execute"
    /\ ~Accepted(strategy_command)
    /\ pc' = "display"
    /\ UNCHANGED <<card_database_df, owned_cards, strategy_keywords, commander_color_identity,
                   scored, ranked, result, commander_card, strategy_command, strategy, invoked>>

\* main.py:185-218  the summary is printed and the application ends
Display ==
    /\ pc = "display"
    /\ pc' = "done"
    /\ UNCHANGED <<card_database_df, owned_cards, strategy_keywords, commander_color_identity,
                   scored, ranked, result, commander_card, strategy_command, strategy, invoked>>

AppNext ==
    \/ LoadData
    \/ LoadDataFails
    \/ LoadDataRaises
    \/ LoadCollection
    \/ SelectCommander
    \/ GetStrategyRaises
    \/ GetStrategy
    \/ ExecuteStrategy
    \/ RejectStrategy
    \/ Display

AppSpec == AppInit /\ [][AppNext]_vars

----------------------------------------------------------------------------
(* Properties of run_deck_builder_app *)

\* C2: no bucket holds "Token", "Emblem" or "Scheme", nor the name of the commander
\* the selection was run for.
C2_NoExcludedNoCommander ==
    (invoked /\ pc \in {"display", "done"}) =>
        /\ BucketNames \cap { <<"T", "o", "k", "e", "n">>, <<"E", "m", "b", "l", "e", "m">>, <<"S", "c", "h", "e", "m", "e">> } = {}
        /\ commander_card.Name \notin BucketNames

\* a command the specification trusts: a non-empty label and a list of strings
ValidCommand(command) ==
    /\ command.kind = "dict"
    /\ command.strategy # <<>>
    /\ command.keywords.kind = "list"
    /\ \A i \in 1..Len(command.keywords.items) : command.keywords.items[i].type = "str"

\* the application has reached the call of the strategy resolver: a commander was
\* selected and control has left main.py:145-156
ResolverCalled == commander_card # NoCard /\ pc # "get_strategy"

\* C3: selection is invoked only for a command with a non-empty label and a list of
\* strings as keywords; otherwise it is never invoked and the application does not
\* raise.
C3_SelectionOnlyForValidCommand ==
    (ResolverCalled /\ ~ValidCommand(strategy_command)) => (~invoked /\ pc # "raised")

\* the entities the specification excludes: the fixed set and the commander the
\* selection is run for
ExcludedEntities ==
    { <<"T", "o", "k", "e", "n">>, <<"E", "m", "b", "l", "e", "m">>, <<"S", "c", "h", "e", "m", "e">> } \cup {commander_card.Name}

\* the eligible cards: color-legal (the rows that were scored), score above 0, no
\* excluded entity
EligibleCards ==
    SelectSeq(scored, LAMBDA row : row.Score > 0 /\ row.Name \notin ExcludedEntities)

\* C11: for some ranking of the eligible cards (ties in any order), deduplicated by
\* name, owned is its first 10 owned names, missing_pricier its first 5 unowned
\* premium names and missing_budget its first 10 unowned other names; no card of
\* score 0 is placed.
C11_BestOfEachClass ==
    (invoked /\ pc \in {"display", "done"}) =>
        /\ \E order \in Rankings(EligibleCards) :
              LET names == FirstOccurrences(Names(order))
              IN  /\ result.owned = FirstN(SelectSeq(names, IsOwned), 10)
                  /\ result.missing_pricier =
                        FirstN(SelectSeq(names,
                                         LAMBDA name : ~IsOwned(name) /\ name \in PRICEY_CARDS), 5)
                  /\ result.missing_budget =
                        FirstN(SelectSeq(names,
                                         LAMBDA name : ~IsOwned(name) /\ name \notin PRICEY_CARDS), 10)
        /\ \A name \in BucketNames :
              \E i \in 1..Len(scored) : scored[i].Name = name /\ scored[i].Score > 0

====
